---- MODULE Spec2Model ----
(***************************************************************************)
(* lambda-node-packager: the dependency-archive builder (archiveModules),  *)
(* the project packager (archiveProject) and the Lambda entry point        *)
(* (lambdaArchive), with the helpers of utils.js they rely on.             *)
(*                                                                         *)
(* Strings are sequences of one-character strings, so that the regular     *)
(* expressions and the string operations of the code can be computed.      *)
(* External tools (S3, npm, tar, zip, rm) succeed or fail                  *)
(* nondeterministically.                                                   *)
(***************************************************************************)
EXTENDS Integers, Sequences, FiniteSets, TLC

\* ------------------------------------------------------------------------
\* Strings
\* ------------------------------------------------------------------------
NoStr == << >>

Lower == {"a","b","c","d","e","f","g","h","i","j","k","l","m","n","o","p",
          "q","r","s","t","u","v","w","x","y","z"}
Digit == {"0","1","2","3","4","5","6","7","8","9"}
Space == {" "}

StartsWith(s, p) == Len(s) >= Len(p) /\ SubSeq(s, 1, Len(p)) = p
EndsWith(s, p)   == Len(s) >= Len(p) /\ SubSeq(s, Len(s) - Len(p) + 1, Len(s)) = p
Drop(s, n)       == SubSeq(s, n + 1, Len(s))

\* String.prototype.replace(/^\/+/, ''): strip the leading slashes
RECURSIVE StripLeadingSlashes(_)
StripLeadingSlashes(s) ==
    IF s # << >> /\ Head(s) = "/" THEN StripLeadingSlashes(Tail(s)) ELSE s

\* ------------------------------------------------------------------------
\* utils.js
\* ------------------------------------------------------------------------
NoS3 == [Bucket |-> NoStr, Key |-> NoStr]

S3Scheme == <<"s","3",":","/","/">>
MinBucketTail == 5
MaxBucketTail == 62

\* position of the first "/" of s, or Len(s) + 1
FirstSlash(s) ==
    IF \E k \in 1..Len(s) : s[k] = "/"
    THEN CHOOSE k \in 1..Len(s) : s[k] = "/" /\ \A j \in 1..(k-1) : s[j] # "/"
    ELSE Len(s) + 1

\* parseS3URI: '^s3://([a-z]{1}[a-z0-9.-]{5,62})(?:/(.*))?$'
parseS3URI(string) ==
    IF ~StartsWith(string, S3Scheme) THEN NoS3
    ELSE LET rest   == Drop(string, Len(S3Scheme))
             cut    == FirstSlash(rest)
             bucket == SubSeq(rest, 1, cut - 1)
         IN  IF /\ Len(bucket) >= 1 + MinBucketTail
                /\ Len(bucket) <= 1 + MaxBucketTail
                /\ bucket[1] \in Lower
                /\ \A k \in 2..Len(bucket) : bucket[k] \in Lower \cup Digit \cup {".", "-"}
             THEN [Bucket |-> bucket, Key |-> Drop(rest, cut)]
             ELSE NoS3

Upper == {"A","B","C","D","E","F","G","H","I","J","K","L","M","N","O","P",
          "Q","R","S","T","U","V","W","X","Y","Z"}
IdentChar == Lower \cup Upper \cup Digit \cup {"_", "-"}

Max(a, b) == IF a >= b THEN a ELSE b

\* the 1-based end of a match of /\${([a-zA-Z0-9_-]+)}/ starting at p, or 0
PlaceholderEnd(str, p) ==
    IF p + 3 <= Len(str) /\ str[p] = "$" /\ str[p + 1] = "{"
    THEN LET stops == {e \in (p + 2)..Len(str) : str[e] \notin IdentChar}
         IN  IF stops = {} THEN 0
             ELSE LET e == CHOOSE x \in stops : \A y \in stops : x <= y
                  IN  IF str[e] = "}" /\ e > p + 2 THEN e ELSE 0
    ELSE 0

\* String.prototype.replace(search, replace) with a string pattern: the
\* first occurrence only
ReplaceFirst(str, search, replace) ==
    LET occ == {k \in 1..(Len(str) - Len(search) + 1) :
                    SubSeq(str, k, k + Len(search) - 1) = search}
    IN  IF occ = {} THEN str
        ELSE LET k == CHOOSE x \in occ : \A y \in occ : x <= y
             IN  SubSeq(str, 1, k - 1) \o replace \o Drop(str, k + Len(search) - 1)

\* the loop of substitute: regex.exec from lastIndex, replace, move lastIndex back
RECURSIVE substituteFrom(_, _, _)
substituteFrom(str, lastIndex, vars) ==
    LET starts == {p \in (lastIndex + 1)..Len(str) : PlaceholderEnd(str, p) # 0}
    IN  IF starts = {} THEN str
        ELSE LET p       == CHOOSE x \in starts : \A y \in starts : x <= y
                 e       == PlaceholderEnd(str, p)
                 search  == SubSeq(str, p, e)
                 replace == vars[SubSeq(str, p + 2, e - 1)]
             IN  substituteFrom(ReplaceFirst(str, search, replace),
                                Max(0, e - (Len(search) + Len(replace))), vars)

substitute(template, vars) == substituteFrom(template, 0, vars)

MODULES == << <<"a","w","s","-","s","d","k">> >>

\* String.prototype.split('\n')
RECURSIVE SplitLines(_)
SplitLines(s) ==
    LET nl == {k \in 1..Len(s) : s[k] = "\n"}
    IN  IF nl = {} THEN << s >>
        ELSE LET k == CHOOSE x \in nl : \A y \in nl : x <= y
             IN  << SubSeq(s, 1, k - 1) >> \o SplitLines(Drop(s, k))

\* the process environment: LAMBDA_RUNTIME_DIR set or not, and what
\* `ls -A $LAMBDA_RUNTIME_DIR/node_modules` does
LsFails(env) == env.runtimeDir /\ env.lsFails

\* availableModules, when the listing does not throw
availableModules(env) ==
    IF ~env.runtimeDir THEN MODULES
    ELSE IF Len(env.lsraw) > 0
         THEN SelectSeq(SplitLines(env.lsraw),
                        LAMBDA item : Len(item) > 0 /\ item[1] # ".")
         ELSE MODULES

SeqRange(s) == {s[k] : k \in 1..Len(s)}

\* a normalization that deletes nothing
keptDependencies(dependencies, modules) == dependencies

\* the dependencies object after `delete result.dependencies[module]` for
\* every module: the remaining entries keep their insertion order
removedDependencies(dependencies, modules) ==
    SelectSeq(dependencies, LAMBDA d : d.k \notin SeqRange(modules))

\* removePreinstalledModules: Object.assign({}, packageJson) is a shallow
\* copy, the copy's dependencies object is the argument's
removePreinstalledModules(packageJson, env) ==
    [name |-> packageJson.name,
     dependencies |-> removedDependencies(packageJson.dependencies, availableModules(env))]

\* ------------------------------------------------------------------------
\* index.js: names
\* ------------------------------------------------------------------------
modulesNameTemplate ==
    <<"m","o","d","u","l","e","s","-","$","{","p","r","o","j","e","c","t","N","a","m","e","}",
      "-","$","{","c","h","e","c","k","s","u","m","}">>
archiveNameTemplate ==
    <<"a","r","c","h","i","v","e","d","-","$","{","p","r","o","j","e","c","t","N","a","m","e","}">>
K_projectName == <<"p","r","o","j","e","c","t","N","a","m","e">>
K_checksum    == <<"c","h","e","c","k","s","u","m">>
ExtTgz == <<".","t","g","z">>
ExtZip == <<".","z","i","p">>

\* name.replace(/\s+/, '-'): the regular expression has no g flag, the
\* first run of whitespace is replaced
slugName(name) ==
    LET ws == {k \in 1..Len(name) : name[k] \in Space}
    IN  IF ws = {} THEN name
        ELSE LET k    == CHOOSE x \in ws : \A y \in ws : x <= y
                 rest == {e \in k..Len(name) : name[e] \notin Space}
                 e    == IF rest = {} THEN Len(name) + 1
                         ELSE CHOOSE x \in rest : \A y \in rest : x <= y
             IN  SubSeq(name, 1, k - 1) \o <<"-">> \o Drop(name, e - 1)

\* JSON.stringify of a flat string-to-string object: the entries in
\* insertion order (no key of the model is an integer index, no character
\* needs escaping)
RECURSIVE jsonEntries(_)
jsonEntries(deps) ==
    IF deps = << >> THEN << >>
    ELSE <<"\"">> \o Head(deps).k \o <<"\"", ":", "\"">> \o Head(deps).v \o <<"\"">>
         \o (IF Tail(deps) = << >> THEN << >> ELSE <<",">> \o jsonEntries(Tail(deps)))

jsonStringify(deps) == <<"{">> \o jsonEntries(deps) \o <<"}">>

\* crypto md5 hex digest: an injective stand-in (no two inputs of the model
\* collide), written over the digest alphabet marker "#"
md5hex(s) == <<"#">> \o s \o <<"#">>

\* archiveModules: the archive name of a cleared package
archiveNameOf(clearedPackage) ==
    LET projectName == slugName(clearedPackage.name)
        checksum    == md5hex(jsonStringify(clearedPackage.dependencies))
        vars        == (K_projectName :> projectName) @@ (K_checksum :> checksum)
    IN  substitute(modulesNameTemplate, vars) \o ExtTgz

\* a cache object under the archive name alone, outside the prefix of the
\* cache location
cacheObjectBare(cache, archiveName) == [Bucket |-> cache.Bucket, Key |-> archiveName]

\* cache.Key = `${cache.Key}/${archiveName}`.replace(/^\/+/, '')
cacheObject(cache, archiveName) ==
    [Bucket |-> cache.Bucket,
     Key    |-> StripLeadingSlashes(cache.Key \o <<"/">> \o archiveName)]



\* (source.Key || source).match(/[^/]*.tgz$/g): the leftmost match, which
\* runs to the end of the string; `.` is any character
matchTgz(subject) ==
    LET n      == Len(subject)
        starts == {p \in 1..(n - 3) :
                     /\ SubSeq(subject, n - 2, n) = <<"t","g","z">>
                     /\ subject[n - 3] # "\n"
                     /\ \A k \in p..(n - 4) : subject[k] # "/"}
    IN  IF starts = {} THEN [matched |-> FALSE, text |-> NoStr]
        ELSE [matched |-> TRUE,
              text |-> SubSeq(subject, CHOOSE x \in starts : \A y \in starts : x <= y, n)]

\* inFileName.replace(/\.[^.]*$/, '.zip')
replaceExtension(name, ext) ==
    LET dots == {k \in 1..Len(name) : name[k] = "."}
    IN  IF dots = {} THEN name
        ELSE SubSeq(name, 1, (CHOOSE x \in dots : \A y \in dots : x >= y) - 1) \o ext

\* targetUri.endsWith('.zip') ? targetUri : `${targetUri}/${outFileName}`.replace(/^\/+/, '')
targetFileUriOf(targetUri, outFileName) ==
    IF EndsWith(targetUri, ExtZip) THEN targetUri
    ELSE StripLeadingSlashes(targetUri \o <<"/">> \o outFileName)

\* the Location of an uploaded object
locationOf(obj) == S3Scheme \o obj.Bucket \o <<"/">> \o obj.Key

\* ------------------------------------------------------------------------
\* Bounds and inputs
\* ------------------------------------------------------------------------
MaxBuilds == 2      \* invocations started in one behaviour
MaxSlots  == 2      \* the slots for invocations in flight

Slots == 1..MaxSlots

Dep(k, v) == [k |-> k, v |-> v]
V1 == <<"1">>
AwsSdk == <<"a","w","s","-","s","d","k">>

Manifests ==
    { [name |-> <<"a","p","p">>, dependencies |-> << Dep(<<"a">>, V1), Dep(<<"b">>, V1) >>],
      [name |-> <<"a","p","p">>, dependencies |-> << Dep(<<"b">>, V1), Dep(<<"a">>, V1) >>],
      [name |-> <<"m","y"," "," ","a"," ","b">>, dependencies |-> << Dep(AwsSdk, V1), Dep(<<"a">>, V1) >>] }

NoPkg == [name |-> NoStr, dependencies |-> << >>]

CacheUris == { NoStr, <<"s","3",":","/","/","c","a","c","h","e","s","/","m">> }

SourceUris ==
    { <<"f","o","o",".","t","g","z">>,
      <<"f","o","o",".","t","a","r">>,
      <<"s","3",":","/","/","b","u","n","d","l","e","/","d","/","f","o","o",".","t","g","z">> }

TargetUris ==
    { <<"o","u","t">>,
      <<"/","o","u","t">>,
      <<"s","3",":","/","/","t","a","r","g","e","t","/","p">> }

\* runtimeDir: the process runs in Lambda, where the runtime sets
\* LAMBDA_RUNTIME_DIR together with LAMBDA_TASK_ROOT and AWS_EXECUTION_ENV
Envs ==
    { [runtimeDir |-> FALSE, lsFails |-> FALSE, lsraw |-> NoStr],
      [runtimeDir |-> TRUE,  lsFails |-> TRUE,  lsraw |-> NoStr],
      [runtimeDir |-> TRUE,  lsFails |-> FALSE, lsraw |-> <<"b","\n",".","x","\n">>] }

\* ------------------------------------------------------------------------
\* State
\* ------------------------------------------------------------------------
VARIABLES
    impl,       \* the file the invocations run: "index" (src/index.js) or "part_000"
    env,        \* the process environment
    s3,         \* the objects of the object store, as [Bucket, Key]
    inv,        \* the invocations in flight, one record per slot
    files,      \* the local files written outside the working directories
    published,  \* the finished builds that put their archive into the cache
    started,    \* the number of invocations started
    parallel    \* how many invocations may be in flight at the same time

vars == <<impl, env, s3, inv, files, published, started, parallel>>

IdleInv ==
    [st           |-> "idle",     \* idle, running, resolved, rejected, threw
     mode         |-> "none",     \* modules, project
     given        |-> NoPkg,      \* opts.source as the caller passed it
     source       |-> NoPkg,      \* opts.source: the caller's package object, now
     cacheUri     |-> NoStr,
     keep         |-> FALSE,
     ownsWorkDir  |-> FALSE,
     mpc          |-> "none",     \* the position in archiveModules
     archiveName  |-> NoStr,
     cache        |-> NoS3,
     probed       |-> NoS3,       \* the object the probe asked for
     present      |-> FALSE,      \* the object was in the store when the probe ran
     probe        |-> "none",     \* the outcome of the probe
     foundInCache |-> FALSE,
     trace        |-> << >>,      \* the external operations, in order
     fs           |-> {},         \* the entries of the working directory
     modules      |-> NoStr,      \* what archiveModules returned
     result       |-> NoStr,      \* what the invocation resolved with
     error        |-> "",
     broke        |-> "",         \* the external operation that failed
     \* archiveProject
     sourceUri     |-> NoStr,
     targetUri     |-> NoStr,
     pkeep         |-> FALSE,    \* opts.keep of archiveProject
     disableUpload |-> FALSE,    \* opts.disableUpload (part_000)
     ppc           |-> "none",   \* the position in the promise chain
     inFileName    |-> NoStr,
     targetFileUri |-> NoStr,    \* part_000: outkey
     target        |-> NoS3,
     failedAt      |-> "",       \* the stage that failed first
     stageError    |-> "",       \* and its error
     rootAtFailure |-> FALSE,    \* the working root existed when it failed
     \* lambdaArchive
     callback      |-> << >>]    \* the calls of the callback, as [err, result]

Count(trace, op) == Len(SelectSeq(trace, LAMBDA x : x = op))

\* what is remembered of a finished build whose upload to the cache succeeded
Summary(r) ==
    [cacheUri |-> r.cacheUri, name |-> r.source.name,
     dependencies |-> r.source.dependencies]

uploaded(r) == Count(r.trace, "upload") > 0 /\ r.error # "upload"

\* the cache objects the builds of the model can ask for
CacheObjects(e) ==
    {cacheObject(parseS3URI(u), archiveNameOf(removePreinstalledModules(m, e))) :
        u \in {x \in CacheUris : parseS3URI(x) # NoS3}, m \in Manifests}

InitOf(file) ==
    /\ impl = file
    /\ env \in Envs
    /\ s3 \in {{}} \cup {{o} : o \in CacheObjects(env)}
    /\ files = {}
    /\ inv = [i \in Slots |-> IdleInv]
    /\ published = {}
    /\ started = 0
    /\ parallel = 1

Init == InitOf("index")

Set(i, r) == inv' = [inv EXCEPT ![i] = r]

\* ------------------------------------------------------------------------
\* archiveModules
\* ------------------------------------------------------------------------
PackageFolder == {"package-modules", "package-modules/npm"}

\* archiveModules ends: as the promise of the invocation in modules mode
returned(r) ==
    [r EXCEPT !.mpc = "returned", !.modules = r.archiveName,
              !.result = IF r.mode = "modules" THEN r.archiveName ELSE r.result,
              !.st = IF r.mode = "modules" THEN "resolved" ELSE r.st]
thrown(r, err) ==
    [r EXCEPT !.mpc = "thrown", !.error = err,
              !.st = IF r.mode = "modules" THEN "rejected" ELSE r.st]

\* the synchronous part of archiveModules, up to the first await
archiveModulesBegin(r) ==
    LET r1 == [r EXCEPT !.fs = r.fs \cup {"workDir"} \cup
                                  (IF impl = "index" THEN PackageFolder
                                   ELSE {"package-modules"}),
                        !.trace = Append(r.trace, "mkdir")]
    IN  IF LsFails(env) THEN thrown(r1, "ls")
        ELSE LET clearedPackage == removePreinstalledModules(r.source, env)
                 archiveName    == archiveNameOf(clearedPackage)
                 cache          == parseS3URI(r.cacheUri)
             IN  [r1 EXCEPT !.source = clearedPackage,
                            !.archiveName = archiveName,
                            !.cache = IF cache # NoS3 THEN cacheObject(cache, archiveName) ELSE NoS3,
                            !.mpc = IF cache # NoS3 THEN "probe" ELSE "install"]

\* a build that goes straight to the removal of package-modules
skipsKeep == "leave"

\* where archiveModules goes on after the cache was probed or filled
afterCache == "keep"

\* the external operation op failed
Broke(r, op) == [r EXCEPT !.broke = op]

\* lambdaArchive with mode 'modules': handler(opts) is archiveModules(opts)
archiveModules(i) ==
    /\ inv[i].st = "idle"
    /\ i <= parallel
    /\ started < MaxBuilds
    /\ \E source \in Manifests, cacheUri \in CacheUris, keep \in BOOLEAN, owns \in BOOLEAN :
          Set(i, archiveModulesBegin(
                    [IdleInv EXCEPT !.st = "running", !.mode = "modules",
                                    !.given = source, !.source = source,
                                    !.cacheUri = cacheUri, !.keep = keep, !.ownsWorkDir = owns]))
    /\ started' = started + 1
    /\ UNCHANGED <<impl, env, s3, files, published, parallel>>

\* a build that forgets foundInCache = true and goes on as after a miss
hitNotRecorded(r, saved) ==
    [r EXCEPT !.probe = "hit", !.foundInCache = FALSE, !.fs = r.fs \cup saved,
              !.mpc = "install"]

\* the try block ran to its end: foundInCache = true
hitFound(r, saved) ==
    [r EXCEPT !.probe = "hit", !.foundInCache = TRUE, !.fs = r.fs \cup saved,
              !.mpc = afterCache]

\* a catch that swallows only the not-found error and rethrows the others
probeFailedRethrown(r, why) ==
    IF why = "error" THEN thrown([r EXCEPT !.probe = why], "getObject")
    ELSE [r EXCEPT !.probe = why, !.mpc = "install"]

\* catch (error) { /* not in cache */ }
probeFailed(r, why) == [r EXCEPT !.probe = why, !.mpc = "install"]

\* s3[operation](cache).promise() settles, inside the try
probeCache(i) ==
    LET r  == inv[i]
        op == IF r.keep THEN "getObject" ELSE "headObject"
        r1 == [r EXCEPT !.trace = Append(r.trace, op), !.probed = r.cache,
                        !.present = r.cache \in s3]
    IN  /\ r.mpc = "probe"
        /\ \/ \* the object is there and the request succeeds
              /\ r.cache \in s3
              /\ IF ~r.keep
                 THEN Set(i, hitFound(r1, {}))
                 ELSE \E saved \in BOOLEAN :
                        \* response.Body is written (and, in part_000, unpacked)
                        \* inside the try: a failure is swallowed as well
                        IF saved
                        THEN Set(i, hitFound(r1, {"archive"} \cup
                                       (IF impl = "index" THEN {} ELSE {"node_modules"})))
                        ELSE Set(i, probeFailed(r1, "save failed"))
           \/ \* not found, or any other error of the request
              Set(i, probeFailed(r1, IF r.cache \in s3 THEN "error" ELSE "not found"))
        /\ UNCHANGED <<impl, env, s3, files, published, started, parallel>>

\* an installer whose failure is caught and which is run again
installRetried(r) == [r EXCEPT !.mpc = "install"]

\* execSync throws: the exception leaves archiveModules
installFailed(r) == thrown(r, "npm install")

\* package.json is written and `npm install --production --no-optional` runs
npmInstall(i) ==
    LET r  == inv[i]
        r1 == [r EXCEPT !.trace = Append(r.trace, "npm install"),
                        !.fs = r.fs \cup {"npm/package.json"}]
    IN  /\ r.mpc = "install"
        /\ \E ok \in BOOLEAN :
              IF ok THEN Set(i, [r1 EXCEPT !.fs = r1.fs \cup {"installed"}, !.mpc = "compress"])
              ELSE Set(i, installFailed(Broke(r1, "npm install")))
        /\ UNCHANGED <<impl, env, s3, files, published, started, parallel>>

\* a build that uploads its archive whether a cache is configured or not
alwaysUploads(r) == "upload"

\* if (cache) after the compressor: the upload, or straight on
afterCompress(r) == IF r.cache # NoS3 THEN "upload" ELSE afterCache

\* utils.tar(node_modules, archivePath)
tar(i) ==
    LET r  == inv[i]
        r1 == [r EXCEPT !.trace = Append(r.trace, "tar")]
    IN  /\ r.mpc = "compress"
        /\ \E ok \in BOOLEAN :
              IF ok THEN Set(i, [r1 EXCEPT !.fs = r.fs \cup {"archive"},
                                           !.mpc = afterCompress(r)])
              ELSE Set(i, thrown(Broke(r1, "tar"), "tar"))
        /\ UNCHANGED <<impl, env, s3, files, published, started, parallel>>

\* an upload under the archive name alone, without the prefix of the cache location
cachePutUnprefixed(store, r) ==
    store \cup {[Bucket |-> r.cache.Bucket, Key |-> r.archiveName]}

\* the object s3.upload writes: the Bucket and Key of cache
cachePut(store, r) == store \cup {r.cache}

\* await s3.upload({Body, ...cache}).promise()
uploadToCache(i) ==
    LET r  == inv[i]
        r1 == [r EXCEPT !.trace = Append(r.trace, "upload")]
    IN  /\ r.mpc = "upload"
        /\ \E ok \in BOOLEAN :
              IF ok THEN /\ Set(i, [r1 EXCEPT !.mpc = afterCache])
                         /\ s3' = cachePut(s3, r)
              ELSE /\ Set(i, thrown(Broke(r1, "upload"), "upload"))
                   /\ s3' = s3
        /\ UNCHANGED <<impl, env, files, published, started, parallel>>

\* index.js: if (keep) utils.untar(archivePath, workDir)
\* part_000: if (!keep) fs.unlinkSync(workDir), which fails on a directory
keepModules(i) ==
    LET r == inv[i]
    IN  /\ r.mpc = "keep"
        /\ IF impl = "index"
           THEN IF r.keep
                THEN \E ok \in BOOLEAN :
                       IF ok THEN Set(i, [r EXCEPT !.trace = Append(r.trace, "untar"),
                                                   !.fs = r.fs \cup {"node_modules"},
                                                   !.mpc = "leave"])
                       ELSE Set(i, thrown(Broke([r EXCEPT !.trace = Append(r.trace, "untar")], "untar"),
                                          "untar"))
                ELSE Set(i, [r EXCEPT !.mpc = "leave"])
           ELSE IF r.keep
                THEN Set(i, [r EXCEPT !.mpc = "leave"])
                ELSE Set(i, thrown(Broke([r EXCEPT !.trace = Append(r.trace, "unlink")], "unlink"),
                                   "unlink"))
        /\ UNCHANGED <<impl, env, s3, files, published, started, parallel>>

\* a removal of the installation folder package-modules/npm alone
withoutInstallDir(fs) == fs \ {"package-modules/npm", "npm/package.json", "installed"}

\* what `rm -rf package-modules` leaves of workDir: the folder goes with the
\* installation and the tarball in it
withoutPackageFolder(fs) ==
    fs \ (PackageFolder \cup {"npm/package.json", "installed", "archive"})

\* index.js: execSync(`rm -rf ${packageFolder}`, {cwd: workDir}); return archiveName
\* part_000: return archiveName
leaveModules(i) ==
    LET r == inv[i]
    IN  /\ r.mpc = "leave"
        /\ IF impl = "index"
           THEN \E ok \in BOOLEAN :
                  IF ok THEN Set(i, returned([r EXCEPT !.trace = Append(r.trace, "rm"),
                                   !.fs = withoutPackageFolder(r.fs)]))
                  ELSE Set(i, thrown(Broke([r EXCEPT !.trace = Append(r.trace, "rm")], "rm"), "rm"))
           ELSE Set(i, returned(r))
        /\ UNCHANGED <<impl, env, s3, files, published, started, parallel>>

\* ------------------------------------------------------------------------
\* archiveProject
\* ------------------------------------------------------------------------
\* a chain that goes on to the upload after a stage rejected
failedThenUploads(r, stage, err) ==
    [r EXCEPT !.ppc = "upload", !.error = err, !.failedAt = stage, !.stageError = err]

\* a stage of the chain rejects
failed(r, stage, err) ==
    [r EXCEPT !.ppc = "failed", !.error = err,
              !.failedAt = IF r.failedAt = "" THEN stage ELSE r.failedAt,
              !.stageError = IF r.failedAt = "" THEN err ELSE r.stageError,
              !.rootAtFailure = IF r.failedAt = "" THEN "rootDir" \in r.fs ELSE r.rootAtFailure]

\* index.js: (source.Key || source); part_000: source.Key
\* hasText: the value .match is called on is a string
sourceSubject(sourceUri) ==
    LET source == parseS3URI(sourceUri)
    IN  [hasText |-> IF impl = "index" THEN source = NoS3 \/ source.Key # NoStr
                     ELSE source # NoS3,
         text    |-> IF source # NoS3 THEN source.Key ELSE sourceUri]

\* the synchronous part of archiveProject: the names, mkdtemp, and the
\* start of fetchProject
archiveProjectBegin(r) ==
    LET source  == parseS3URI(r.sourceUri)
        subject == sourceSubject(r.sourceUri)
        m       == matchTgz(subject.text)
    IN  IF ~subject.hasText \/ ~m.matched
        THEN \* .match of a non-string, or [0] of null
             [r EXCEPT !.st = "threw", !.error = "TypeError"]
        ELSE IF m.text = NoStr
        THEN [r EXCEPT !.st = "rejected", !.error = "Expected package name"]
        ELSE LET outFileName == replaceExtension(m.text, ExtZip)
                 targetFileUri ==
                     IF impl = "index" THEN targetFileUriOf(r.targetUri, outFileName)
                     ELSE replaceExtension(source.Key, ExtZip)
                 target ==
                     IF impl = "index" THEN parseS3URI(targetFileUri)
                     ELSE parseS3URI(r.targetUri)
             IN  [r EXCEPT !.inFileName = m.text, !.targetFileUri = targetFileUri,
                           !.target = target, !.fs = {"rootDir"},
                           !.trace = <<"mkdtemp">>, !.ppc = "fetch"]

\* lambdaArchive with mode 'project': handler(opts) is archiveProject(opts)
archiveProject(i) ==
    /\ inv[i].st = "idle"
    /\ i <= parallel
    /\ started < MaxBuilds
    /\ \E sourceUri \in SourceUris, targetUri \in TargetUris, cacheUri \in CacheUris,
          keep \in BOOLEAN,
          disableUpload \in (IF impl = "index" THEN {FALSE} ELSE BOOLEAN) :
          Set(i, archiveProjectBegin(
                    [IdleInv EXCEPT !.st = "running", !.mode = "project",
                                    !.sourceUri = sourceUri, !.targetUri = targetUri,
                                    !.cacheUri = cacheUri, !.pkeep = keep,
                                    !.disableUpload = disableUpload]))
    /\ started' = started + 1
    /\ UNCHANGED <<impl, env, s3, files, published, parallel>>

\* fetchProject: s3.getObject and writeFileSync, or utils.copyFile
\* part_000 fetches from S3 in Lambda only; elsewhere it hands the parsed
\* source object to utils.copyFile, which fails
fetchProject(i) ==
    LET r  == inv[i]
        r1 == [r EXCEPT !.trace = Append(r.trace, "fetch")]
    IN  /\ r.mode = "project" /\ r.st = "running" /\ r.ppc = "fetch"
        /\ \E ok \in BOOLEAN :
              IF ok /\ (impl = "index" \/ env.runtimeDir)
              THEN Set(i, [r1 EXCEPT !.fs = r.fs \cup {"bundle"}, !.ppc = "extract"])
              ELSE Set(i, failed(r1, "fetch", "fetch"))
        /\ UNCHANGED <<impl, env, s3, files, published, started, parallel>>

\* the continuation of fetchProject: utils.untar(archivePath)
extractProject(i) ==
    LET r  == inv[i]
        r1 == [r EXCEPT !.trace = Append(r.trace, "extract")]
    IN  /\ r.mode = "project" /\ r.st = "running" /\ r.ppc = "extract"
        /\ \E ok \in BOOLEAN :
              IF ok THEN Set(i, [r1 EXCEPT !.fs = r.fs \cup {"package"}, !.ppc = "build"])
              ELSE Set(i, failed(r1, "extract", "untar"))
        /\ UNCHANGED <<impl, env, s3, files, published, started, parallel>>

\* buildModules: the bundle's package.json is read and archiveModules is
\* called with workDir: pckgDir and keep: true
buildModules(i) ==
    LET r == inv[i]
    IN  /\ r.mode = "project" /\ r.st = "running" /\ r.ppc = "build"
        /\ \E packageJson \in Manifests :
              Set(i, archiveModulesBegin(
                        [r EXCEPT !.given = packageJson, !.source = packageJson, !.keep = TRUE,
                                  !.ownsWorkDir = FALSE, !.ppc = "modules",
                                  !.trace = Append(r.trace, "build")]))
        /\ UNCHANGED <<impl, env, s3, files, published, started, parallel>>

\* createArchive: utils.zip(pckgDir, archivePath)
createArchive(i) ==
    LET r  == inv[i]
        r1 == [r EXCEPT !.trace = Append(r.trace, "zip")]
    IN  /\ r.mode = "project" /\ r.st = "running"
        /\ r.ppc = "modules" /\ r.mpc = "returned"
        /\ \E ok \in BOOLEAN :
              IF ok THEN Set(i, [r1 EXCEPT !.fs = r.fs \cup {"zip"}, !.ppc = "upload"])
              ELSE Set(i, failed(r1, "package", "zip"))
        /\ UNCHANGED <<impl, env, s3, files, published, started, parallel>>

\* uploadPackage: s3.upload to the target, or utils.copyFile
uploadPackage(i) ==
    LET r  == inv[i]
        r1 == [r EXCEPT !.trace = Append(r.trace, "put")]
        toS3 == IF impl = "index" THEN r.target # NoS3 ELSE ~r.disableUpload
    IN  /\ r.mode = "project" /\ r.st = "running" /\ r.ppc = "upload"
        /\ IF toS3 /\ r.target = NoS3
           THEN \* part_000: target.Bucket of null
                /\ Set(i, failed(r, "upload", "TypeError"))
                /\ UNCHANGED <<s3, files>>
           ELSE \E ok \in BOOLEAN :
                  IF ~ok THEN /\ Set(i, failed(r1, "upload", "put"))
                              /\ UNCHANGED <<s3, files>>
                  ELSE /\ Set(i, [r1 EXCEPT !.ppc = "uploaded",
                                    !.result = IF impl = "index" THEN r.targetFileUri
                                               ELSE IF toS3 THEN locationOf(r.target)
                                               ELSE NoStr])
                       /\ s3' = IF toS3 THEN s3 \cup {r.target} ELSE s3
                       /\ files' = IF toS3 THEN files ELSE files \cup {r.targetFileUri}
        /\ UNCHANGED <<impl, env, published, started, parallel>>

\* cleanup: execSync(`rm -rf ${rootDir}`)
cleanup(r) == [r EXCEPT !.trace = Append(r.trace, "cleanup"), !.fs = {}]
cleanupFails(r) == [r EXCEPT !.trace = Append(r.trace, "cleanup")]

\* a last .then that ignores keep
keepIgnored(r) == FALSE

\* if (!keep) in the last .then; part_000 has no keep option
keepsRoot(r) == impl = "index" /\ r.pkeep

\* the last .then of the chain
\* index.js: if (!keep) cleanup(); return result
\* part_000: cleanup(); return result
chainFulfilled(i) ==
    LET r == inv[i]
    IN  /\ r.mode = "project" /\ r.st = "running" /\ r.ppc = "uploaded"
        /\ IF keepsRoot(r)
           THEN Set(i, [r EXCEPT !.st = "resolved", !.ppc = "done"])
           ELSE \E ok \in BOOLEAN :
                  IF ok THEN Set(i, [cleanup(r) EXCEPT !.st = "resolved", !.ppc = "done"])
                  ELSE IF impl = "index"
                       THEN Set(i, [cleanupFails(r) EXCEPT !.st = "rejected", !.ppc = "done",
                                                           !.error = "cleanup"])
                       ELSE Set(i, [cleanupFails(r) EXCEPT !.ppc = "failed", !.error = "cleanup"])
        /\ UNCHANGED <<impl, env, s3, files, published, started, parallel>>

\* a rejection reaches the end of the chain
\* index.js: there is no handler, the promise returned rejects
\* part_000: .catch(error => { cleanup(); throw error; })
chainRejected(i) ==
    LET r  == inv[i]
        r1 == IF r.ppc = "modules"
              THEN [r EXCEPT !.failedAt = "build", !.stageError = r.error,
                             !.rootAtFailure = "rootDir" \in r.fs]
              ELSE r
    IN  /\ r.mode = "project" /\ r.st = "running"
        /\ r.ppc = "failed" \/ (r.ppc = "modules" /\ r.mpc = "thrown")
        /\ IF impl = "index"
           THEN Set(i, [r1 EXCEPT !.st = "rejected", !.ppc = "done"])
           ELSE \E ok \in BOOLEAN :
                  IF ok THEN Set(i, [cleanup(r1) EXCEPT !.st = "rejected", !.ppc = "done"])
                  ELSE Set(i, [cleanupFails(r1) EXCEPT !.st = "rejected", !.ppc = "done",
                                                       !.error = "cleanup"])
        /\ UNCHANGED <<impl, env, s3, files, published, started, parallel>>

\* lambdaArchive with a mode that is neither 'project' nor 'modules':
\* Promise.reject(new Error('Unexpected mode'))
unexpectedMode(i) ==
    /\ inv[i].st = "idle"
    /\ i <= parallel
    /\ started < MaxBuilds
    /\ Set(i, [IdleInv EXCEPT !.st = "rejected", !.mode = "other",
                             !.error = "Unexpected mode"])
    /\ started' = started + 1
    /\ UNCHANGED <<impl, env, s3, files, published, parallel>>

\* .then(result => callback(null, result)).catch(err => callback(err, null))
called(r) ==
    [r EXCEPT !.callback = Append(r.callback,
                  IF r.st = "resolved" THEN [err |-> "", result |-> r.result]
                  ELSE [err |-> r.error, result |-> NoStr])]

\* the reaction of lambdaArchive to the settled promise of the handler
lambdaCallback(i) ==
    /\ inv[i].st \in {"resolved", "rejected"}
    /\ inv[i].callback = << >>
    /\ Set(i, called(inv[i]))
    /\ UNCHANGED <<impl, env, s3, files, published, started, parallel>>

\* the invocation is over: the callback was called, or the handler threw
\* out of lambdaArchive and no reaction is left; the slot is free again
forget(i) ==
    /\ \/ inv[i].st \in {"resolved", "rejected"} /\ inv[i].callback # << >>
       \/ inv[i].st = "threw"
    /\ published' = IF uploaded(inv[i]) THEN published \cup {Summary(inv[i])} ELSE published
    /\ Set(i, IdleInv)
    /\ UNCHANGED <<impl, env, s3, files, started, parallel>>

Next ==
    \E i \in Slots :
        \/ archiveModules(i)
        \/ probeCache(i)
        \/ npmInstall(i)
        \/ tar(i)
        \/ uploadToCache(i)
        \/ keepModules(i)
        \/ leaveModules(i)
        \/ archiveProject(i)
        \/ fetchProject(i)
        \/ extractProject(i)
        \/ buildModules(i)
        \/ createArchive(i)
        \/ uploadPackage(i)
        \/ chainFulfilled(i)
        \/ chainRejected(i)
        \/ unexpectedMode(i)
        \/ lambdaCallback(i)
        \/ forget(i)

Spec == Init /\ [][Next]_vars

\* the same program with the file part_000 in the place of index.js
InitLegacy == InitOf("part_000")
SpecLegacy == InitLegacy /\ [][Next]_vars

\* several invocations of archiveModules in flight at the same time, each await a
\* point where another invocation may run; the cache starts empty
\* and every invocation makes its working directory itself (mkdtempSync),
\* so that no two of them share one
InitConc ==
    /\ impl = "index"
    /\ env \in Envs
    /\ s3 = {}
    /\ files = {}
    /\ inv = [i \in Slots |-> IdleInv]
    /\ published = {}
    /\ started = 0
    /\ parallel = 2

NextConc ==
    \E i \in Slots :
        \/ archiveModules(i) /\ inv'[i].ownsWorkDir
        \/ probeCache(i)
        \/ npmInstall(i)
        \/ tar(i)
        \/ uploadToCache(i)
        \/ keepModules(i)
        \/ leaveModules(i)
        \/ lambdaCallback(i)
        \/ forget(i)

SpecConc == InitConc /\ [][NextConc]_vars

\* ------------------------------------------------------------------------
\* Properties
\* ------------------------------------------------------------------------
\* the position of the first op in a trace, or 0
IndexOf(trace, op) ==
    IF Count(trace, op) = 0 THEN 0
    ELSE CHOOSE k \in 1..Len(trace) : trace[k] = op /\ \A j \in 1..(k - 1) : trace[j] # op

Last(trace) == trace[Len(trace)]

\* the key of the cache object a build of manifest m with cache location uri asks for
KeyFromManifest(uri, m) ==
    cacheObject(parseS3URI(uri), archiveNameOf(removePreinstalledModules(m, env)))

ProbeOps == {"getObject", "headObject"}
Probed(r) == r.probe # "none"
Missed(r) == r.probe \in {"not found", "error", "save failed"}

\* C1, as stated: when a cache location is configured and the cache holds
\* an entry under the key of the manifest, the build invokes neither the
\* installer nor the compressor, uploads nothing, and returns '<key>.tgz'.
C1_AsStated ==
    \A i \in Slots :
        LET r == inv[i]
        IN  (r.cache # NoS3 /\ Probed(r) /\ r.present) =>
                /\ Count(r.trace, "npm install") = 0
                /\ Count(r.trace, "tar") = 0
                /\ Count(r.trace, "upload") = 0
                /\ (r.mpc = "returned" => r.modules = r.archiveName)

\* C1, amended: when a cache location is configured, the cache holds an
\* entry under the key of the manifest and the probe of that entry succeeds,
\* the build invokes neither the installer nor the compressor, uploads
\* nothing, and, when it returns, returns the archive name '<key>.tgz' the
\* cached entry is stored under.
C1_CacheHit ==
    \A i \in Slots :
        LET r == inv[i]
        IN  (r.cache # NoS3 /\ r.probe = "hit") =>
                /\ r.present
                /\ r.cache = KeyFromManifest(r.cacheUri, r.given)
                /\ Count(r.trace, "npm install") = 0
                /\ Count(r.trace, "tar") = 0
                /\ Count(r.trace, "upload") = 0
                /\ r.mpc # "install" /\ r.mpc # "compress" /\ r.mpc # "upload"
                /\ (r.mpc = "returned" =>
                        /\ r.modules = archiveNameOf(removePreinstalledModules(r.given, env))
                        /\ EndsWith(r.modules, ExtTgz)
                        /\ EndsWith(r.cache.Key, r.modules)
                        /\ (r.st = "resolved" /\ r.mode = "modules" => r.result = r.modules))

C1_Witness ==
    \E i \in Slots :
        /\ inv[i].mode = "modules" /\ inv[i].st = "resolved"
        /\ inv[i].probe = "hit" /\ inv[i].result # NoStr

\* C2: with a cache location and no entry under the key of the manifest, a
\* build that returns has invoked the installer exactly once, then the
\* compressor, then put the archive under the key it probed, which is the
\* key computed from the manifest, and the entry exists; no put ever
\* happens before the installer and the compressor ran.
C2_MissFillsCache ==
    \A i \in Slots :
        LET r == inv[i]
        IN  /\ (r.cache # NoS3 /\ Probed(r) /\ ~r.present /\ r.mpc = "returned") =>
                /\ Count(r.trace, "npm install") = 1
                /\ Count(r.trace, "tar") = 1
                /\ Count(r.trace, "upload") = 1
                /\ r.probed = KeyFromManifest(r.cacheUri, r.given)
                /\ r.probed \in s3
            /\ Count(r.trace, "upload") > 0 =>
                /\ 0 < IndexOf(r.trace, "npm install")
                /\ IndexOf(r.trace, "npm install") < IndexOf(r.trace, "tar")
                /\ IndexOf(r.trace, "tar") < IndexOf(r.trace, "upload")
            /\ (Count(r.trace, "upload") > 0 /\ r.mpc # "thrown") => r.probed \in s3

C2_Witness ==
    \E i \in Slots :
        /\ inv[i].mode = "modules" /\ inv[i].st = "resolved"
        /\ inv[i].cache # NoS3 /\ ~inv[i].present /\ inv[i].probe = "not found"
        /\ inv[i].cache \in s3

\* C3: after a build that missed and uploaded its archive, a build with the
\* same cache location, the same project name and the same normalized
\* dependency map (the same name-version pairs) whose probe meets no error
\* of the object store is a cache hit and does not invoke the installer.
C3_SecondBuildHits ==
    \A i \in Slots : \A p \in published :
        LET r == inv[i]
        IN  (/\ r.cache # NoS3 /\ r.probe \in {"hit", "not found"}
             /\ p.cacheUri = r.cacheUri /\ p.name = r.source.name
             /\ SeqRange(p.dependencies) = SeqRange(r.source.dependencies))
            => (r.probe = "hit" /\ Count(r.trace, "npm install") = 0)

\* C4: a probe that fails, because the object is not there or for any
\* other reason, is a miss: the build does not fail with the probe, the
\* next operation is the installer, and a build that returns has installed,
\* compressed and uploaded once each.
C4_ProbeFailureIsMiss ==
    \A i \in Slots :
        LET r == inv[i]
            k == IF r.keep THEN IndexOf(r.trace, "getObject")
                 ELSE IndexOf(r.trace, "headObject")
        IN  Missed(r) =>
                /\ ~r.foundInCache
                /\ ~(r.mpc = "thrown" /\ Last(r.trace) \in ProbeOps)
                /\ r.error \notin ProbeOps
                /\ (Len(r.trace) = k => r.mpc = "install")
                /\ (Len(r.trace) > k => r.trace[k + 1] = "npm install")
                /\ (r.mpc = "returned" =>
                        /\ Count(r.trace, "npm install") = 1
                        /\ Count(r.trace, "tar") = 1
                        /\ Count(r.trace, "upload") = 1
                        /\ r.cache \in s3
                        /\ r.modules = r.archiveName)

C4_Witness ==
    \E i \in Slots :
        /\ inv[i].probe = "error" /\ inv[i].present
        /\ inv[i].mpc = "returned" /\ inv[i].st = "resolved"

InstallerFailed(r)  == r.broke = "npm install"
CompressorFailed(r) == r.broke = "tar"

\* C5: when the installer or the compressor fails, archiveModules throws
\* that error and the invocation is rejected with it; the step ran once,
\* nothing ran after it (no upload, no untar, no rm), no name is returned
\* and the build wrote no cache entry.
C5_InstallOrCompressFailureIsFatal ==
    \A i \in Slots :
        LET r == inv[i]
        IN  /\ InstallerFailed(r) =>
                /\ r.mpc = "thrown" /\ r.error = "npm install"
                /\ Last(r.trace) = "npm install"
                /\ Count(r.trace, "npm install") = 1 /\ Count(r.trace, "tar") = 0
            /\ CompressorFailed(r) =>
                /\ r.mpc = "thrown" /\ r.error = "tar"
                /\ Last(r.trace) = "tar"
                /\ Count(r.trace, "npm install") = 1 /\ Count(r.trace, "tar") = 1
            /\ (InstallerFailed(r) \/ CompressorFailed(r)) =>
                /\ Count(r.trace, "upload") = 0
                /\ Count(r.trace, "untar") = 0
                /\ Count(r.trace, "rm") = 0
                /\ r.modules = NoStr /\ r.result = NoStr
                /\ r.st \in {"running", "rejected"}
                /\ (r.mode = "modules" => r.st = "rejected")
                /\ (r.cache \in s3 => r.present)

C5_Witness ==
    \E i \in Slots :
        /\ inv[i].st = "rejected" /\ inv[i].cache # NoS3 /\ ~inv[i].present
        /\ CompressorFailed(inv[i])

UploadFailed(r) == r.broke = "upload"

\* C6: when installation and compression succeeded and the upload to the
\* cache fails, the build still completes and returns the archive name.
C6_UploadFailureNotFatal ==
    \A i \in Slots :
        LET r == inv[i]
        IN  UploadFailed(r) => (r.mpc # "thrown" /\ r.st # "rejected")

\* C7: when a stage of archiveProject fails after the working root was
\* created and keep is not set, the working root is gone when the failure
\* is reported.
C7_FailureCleansUp ==
    \A i \in Slots :
        LET r == inv[i]
        IN  (/\ r.mode = "project" /\ r.st = "rejected"
             /\ r.failedAt # "" /\ r.rootAtFailure /\ ~r.pkeep)
            => "rootDir" \notin r.fs

\* C8: when a stage of archiveProject fails, the error the caller gets is
\* the error of that stage, whatever the cleanup does.
C8_StageErrorDelivered ==
    \A i \in Slots :
        LET r == inv[i]
        IN  (r.mode = "project" /\ r.st = "rejected" /\ r.failedAt # "")
            => r.error = r.stageError

\* C9: when every stage of archiveProject succeeded and the result is
\* returned, the working root was deleted after the upload if keep is not
\* set and is still there if keep is set; cleanup never runs before the
\* upload has completed.
C9_CleanupAfterUpload ==
    \A i \in Slots :
        LET r == inv[i]
        IN  /\ (r.mode = "project" /\ r.st = "resolved" /\ ~r.pkeep) =>
                /\ "rootDir" \notin r.fs
                /\ Len(r.trace) >= 2
                /\ r.trace[Len(r.trace)] = "cleanup"
                /\ r.trace[Len(r.trace) - 1] = "put"
            /\ (r.mode = "project" /\ r.st = "resolved" /\ r.pkeep) =>
                /\ "rootDir" \in r.fs
                /\ Count(r.trace, "cleanup") = 0
            /\ (r.mode = "project" /\ Count(r.trace, "cleanup") > 0) =>
                /\ 0 < IndexOf(r.trace, "put")
                /\ IndexOf(r.trace, "put") < IndexOf(r.trace, "cleanup")
                /\ r.ppc = "done" /\ r.result # NoStr

C9_Witness ==
    \E i \in Slots :
        /\ inv[i].mode = "project" /\ inv[i].st = "resolved"
        /\ ~inv[i].pkeep /\ inv[i].fs = {} /\ inv[i].result # NoStr

\* C10: when the last segment of the source location does not match the
\* tarball pattern, archiveProject returns a promise rejected with
\* 'Expected package name ...', before the working root is created and
\* before any fetch, copy or object-store call.
C10_InvalidSourceRejected ==
    \A i \in Slots :
        LET r == inv[i]
        IN  (/\ r.mode = "project"
             /\ ~matchTgz(sourceSubject(r.sourceUri).text).matched)
            => /\ r.st = "rejected"
               /\ r.error = "Expected package name"
               /\ r.trace = << >>
               /\ r.fs = {}

\* C11: the archive name depends only on the project name and on the set
\* of (name, version) pairs of the normalized manifest: a build and any
\* manifest with the same project name whose normalized dependency map has
\* the same pairs, in whatever order they were inserted and whatever
\* excluded packages it listed, have the same archive name.
C11_KeyDependsOnPairsOnly ==
    \A i \in Slots : \A m \in Manifests :
        LET r == inv[i]
            n == removePreinstalledModules(m, env)
        IN  (/\ r.archiveName # NoStr
             /\ n.name = r.source.name
             /\ SeqRange(n.dependencies) = SeqRange(r.source.dependencies))
            => r.archiveName = archiveNameOf(n)

\* C12: removePreinstalledModules has no side effect on its input: once it
\* has returned, the manifest the caller passed, its dependencies included,
\* is what it was before the call.
C12_InputUnchanged ==
    \A i \in Slots :
        LET r == inv[i]
        IN  (r.mpc # "none" /\ r.error # "ls") => r.source = r.given

\* C13: for a fixed exclusion list, normalization is idempotent: the
\* normalized manifest of a build, normalized once more, has the same name
\* and the same dependency map, and no key of the exclusion list is among
\* its dependencies.
C13_NormalizeIdempotent ==
    \A i \in Slots :
        LET r == inv[i]
        IN  (r.mpc # "none" /\ r.error # "ls") =>
                LET again    == removePreinstalledModules(r.source, env)
                    excluded == SeqRange(availableModules(env))
                IN  /\ again.name = r.source.name /\ r.source.name = r.given.name
                    /\ again.dependencies = r.source.dependencies
                    /\ \A k \in 1..Len(r.source.dependencies) :
                          r.source.dependencies[k].k \notin excluded
                    /\ SeqRange(r.source.dependencies) \subseteq SeqRange(r.given.dependencies)

C13_Witness ==
    \E i \in Slots :
        /\ inv[i].mpc = "returned"
        /\ Len(inv[i].source.dependencies) < Len(inv[i].given.dependencies)

\* every run of whitespace of a name replaced by one hyphen
RECURSIVE SlugAll(_)
SlugAll(name) ==
    IF name = << >> THEN << >>
    ELSE IF Head(name) \in Space
         THEN IF Tail(name) # << >> /\ Head(Tail(name)) \in Space
              THEN SlugAll(Tail(name))
              ELSE <<"-">> \o SlugAll(Tail(name))
         ELSE <<Head(name)>> \o SlugAll(Tail(name))

ModulesPrefix == <<"m","o","d","u","l","e","s","-">>

\* C14: the archive name of a build is 'modules-' + slug(projectName) + '-'
\* + md5hex(serialized normalized dependencies) + '.tgz', where slug
\* replaces every run of whitespace of the project name by one hyphen.
C14_ArchiveNameFormat ==
    \A i \in Slots :
        LET r == inv[i]
        IN  r.archiveName # NoStr =>
                r.archiveName = ModulesPrefix \o SlugAll(r.given.name) \o <<"-">>
                                \o md5hex(jsonStringify(r.source.dependencies)) \o ExtTgz

\* two invocations in flight with the same cache object
SameKey(i, j) ==
    /\ i # j
    /\ inv[i].mode = "modules" /\ inv[j].mode = "modules"
    /\ inv[i].cache # NoS3 /\ inv[i].cache = inv[j].cache

\* the object '<prefix>/<archive name>' of the bucket of the cache location
EntryOf(r) ==
    [Bucket |-> parseS3URI(r.cacheUri).Bucket,
     Key    |-> StripLeadingSlashes(parseS3URI(r.cacheUri).Key \o <<"/">> \o r.archiveName)]

\* C15: two archiveModules invocations that run concurrently for the same
\* cache key against a cache that starts empty, each in its own working
\* root, may both miss, install and upload. Under every interleaving an
\* invocation fails only if an external tool of its own fails: a running
\* one always has a next step, and one that completes returns the archive
\* name, the same for both, with the entry in the cache under the key. What
\* is in a working root comes from the steps of its own invocation.
C15_ConcurrentBuilds ==
    \A i, j \in Slots :
        LET r == inv[i]
            q == inv[j]
        IN  SameKey(i, j) =>
                /\ r.st = "rejected" => r.broke # ""
                /\ r.st = "running" =>
                      r.mpc \in {"probe", "install", "compress", "upload", "keep", "leave"}
                /\ r.st = "resolved" =>
                      /\ r.result = r.archiveName
                      /\ EndsWith(EntryOf(r).Key, r.result)
                      /\ EntryOf(r) \in s3
                /\ (r.st = "resolved" /\ q.st = "resolved") => r.result = q.result
                /\ "installed" \in r.fs => Count(r.trace, "npm install") = 1
                /\ "archive" \in r.fs =>
                      Count(r.trace, "tar") = 1 \/ (r.keep /\ r.probe = "hit")
                /\ "node_modules" \in r.fs => Count(r.trace, "untar") = 1
                /\ (r.probe = "hit" /\ r.mpc = "returned") =>
                      /\ Count(r.trace, "npm install") = 0
                      /\ r.present

\* both missed, installed and uploaded, and both returned
C15_Witness ==
    \E i, j \in Slots :
        /\ SameKey(i, j)
        /\ inv[i].st = "resolved" /\ inv[j].st = "resolved"
        /\ inv[i].probe = "not found" /\ inv[j].probe = "not found"
        /\ Count(inv[i].trace, "upload") = 1 /\ Count(inv[j].trace, "upload") = 1
        /\ Count(inv[i].trace, "npm install") = 1 /\ Count(inv[j].trace, "npm install") = 1
        /\ inv[i].result = inv[j].result /\ inv[i].cache \in s3

\* C16: the output file name is the file name of the source bundle with
\* its last extension replaced by '.zip'; the resolved target is the target
\* location itself when it ends in '.zip' and the target location, '/' and
\* the output name otherwise; the artifact is written to exactly that
\* target and the value returned on success is that target.
C16_ResolvedTarget ==
    \A i \in Slots :
        LET r        == inv[i]
            outName  == replaceExtension(r.inFileName, ExtZip)
            resolved == IF EndsWith(r.targetUri, ExtZip) THEN r.targetUri
                        ELSE r.targetUri \o <<"/">> \o outName
        IN  (r.mode = "project" /\ r.inFileName # NoStr) =>
                /\ EndsWith(outName, ExtZip)
                /\ r.targetFileUri = resolved
                /\ r.ppc = "uploaded" =>
                      /\ r.result = resolved
                      /\ IF parseS3URI(resolved) # NoS3 THEN parseS3URI(resolved) \in s3
                         ELSE resolved \in files

\* the stages of archiveProject as they appear in the trace, and the names
\* they fail under
StageOps   == <<"fetch", "extract", "build", "zip", "put">>
StageNames == <<"fetch", "extract", "build", "package", "upload">>
ModuleOps  == {"mkdir", "getObject", "headObject", "npm install", "tar", "upload", "untar", "rm"}

StageSet == {StageOps[k] : k \in 1..5}

\* C17: the stages of archiveProject run in the order fetch, extract,
\* dependency build, package, upload, each at most once and one at a time; a
\* stage starts only after the stage before it has succeeded, so that
\* nothing is written to the target unless fetch, extract, dependency build
\* and packaging all succeeded.
C17_StagesInOrder ==
    \A i \in Slots :
        LET r == inv[i]
        IN  r.mode = "project" =>
                LET stages == SelectSeq(r.trace, LAMBDA x : x \in StageSet)
                    n == Len(stages)
                    b == IndexOf(r.trace, "build")
                    z == IndexOf(r.trace, "zip")
                IN  \* each stage at most once, in the order of the chain
                    /\ n <= 5 /\ stages = SubSeq(StageOps, 1, n)
                    \* the stages before the last one started did not fail
                    /\ \A k \in 1..(n - 1) : r.failedAt # StageNames[k]
                    /\ n >= 4 => r.mpc = "returned"
                    \* no stage follows the one that failed
                    /\ \A k \in 1..5 : r.failedAt = StageNames[k] => n <= k
                    \* the steps of the dependency build lie between build and package
                    /\ \A m \in 1..Len(r.trace) :
                          r.trace[m] \in ModuleOps =>
                              /\ 0 < b /\ b < m
                              /\ z > 0 => m < z
                    /\ (started = 1 /\ (r.targetFileUri \in files \/ r.target \in s3)) =>
                          /\ stages = StageOps
                          /\ r.failedAt = ""

C17_Witness ==
    \E i \in Slots :
        /\ inv[i].mode = "project" /\ inv[i].st = "resolved"
        /\ \A k \in 1..5 : Count(inv[i].trace, StageOps[k]) = 1
        /\ Count(inv[i].trace, "npm install") = 1

StoreOps == {"getObject", "headObject", "upload"}

\* C18: the cache is written only when a cache location is configured and
\* the installer and the compressor ran in this invocation: a build that
\* hit the cache puts nothing, a build without a cache location performs no
\* operation of the object store at all, and in every run the probe, the
\* installer, the compressor, the cache put and the materialization each
\* happen at most once.
C18_CacheWrittenOnlyAfterBuild ==
    \A i \in Slots :
        LET r == inv[i]
        IN  /\ Count(r.trace, "upload") > 0 =>
                /\ parseS3URI(r.cacheUri) # NoS3 /\ r.cache # NoS3
                /\ Count(r.trace, "npm install") = 1 /\ Count(r.trace, "tar") = 1
                /\ IndexOf(r.trace, "npm install") < IndexOf(r.trace, "tar")
                /\ IndexOf(r.trace, "tar") < IndexOf(r.trace, "upload")
                /\ r.broke \notin {"npm install", "tar"}
                /\ "archive" \in r.fs \/ Count(r.trace, "rm") + Count(r.trace, "cleanup") > 0
            /\ r.probe = "hit" => (Count(r.trace, "upload") = 0 /\ r.mpc # "upload")
            /\ parseS3URI(r.cacheUri) = NoS3 =>
                /\ \A n \in 1..Len(r.trace) : r.trace[n] \notin StoreOps
                /\ r.mpc \notin {"probe", "upload"}
            /\ Count(r.trace, "getObject") + Count(r.trace, "headObject") <= 1
            /\ Count(r.trace, "npm install") <= 1
            /\ Count(r.trace, "tar") <= 1
            /\ Count(r.trace, "upload") <= 1
            /\ Count(r.trace, "untar") <= 1

C18_Witness ==
    \E i \in Slots :
        /\ inv[i].mode = "modules" /\ inv[i].st = "resolved"
        /\ parseS3URI(inv[i].cacheUri) = NoS3
        /\ Count(inv[i].trace, "npm install") = 1 /\ Count(inv[i].trace, "tar") = 1
        /\ inv[i].keep /\ Count(inv[i].trace, "untar") = 1

\* C19: with keep set, a build that returns has decompressed the installed
\* tree into workDir, after a hit (the object was fetched whole, written
\* and then decompressed) as after a miss (installed, compressed, then
\* decompressed); with keep not set the probe is an existence check only
\* and nothing is decompressed into workDir.
C19_KeepMaterializes ==
    \A i \in Slots :
        LET r == inv[i]
        IN  /\ (r.keep /\ r.mpc = "returned") =>
                /\ Count(r.trace, "untar") = 1
                /\ Count(r.trace, "cleanup") = 0 => "node_modules" \in r.fs
                /\ r.probe = "hit" =>
                      /\ Count(r.trace, "getObject") = 1
                      /\ IndexOf(r.trace, "getObject") < IndexOf(r.trace, "untar")
                      /\ Count(r.trace, "npm install") = 0
                /\ r.probe # "hit" =>
                      /\ Count(r.trace, "tar") = 1
                      /\ IndexOf(r.trace, "tar") < IndexOf(r.trace, "untar")
                /\ Count(r.trace, "headObject") = 0
            /\ (r.keep /\ "node_modules" \in r.fs) =>
                  ("archive" \in r.fs \/ Count(r.trace, "rm") = 1)
            /\ (~r.keep /\ r.mode = "modules") =>
                /\ Count(r.trace, "getObject") = 0
                /\ Count(r.trace, "untar") = 0
                /\ "node_modules" \notin r.fs
                /\ r.probe = "hit" =>
                      (Count(r.trace, "headObject") = 1 /\ "archive" \notin r.fs)

\* a build with keep that hit the cache and returned with the tree in place
C19_Witness ==
    \E i \in Slots :
        /\ inv[i].mode = "modules" /\ inv[i].keep /\ inv[i].mpc = "returned"
        /\ inv[i].probe = "hit" /\ "node_modules" \in inv[i].fs
        /\ "archive" \notin inv[i].fs

\* C20: when archiveModules created its working directory itself (no
\* workDir was supplied) and keep is not set, the directory no longer
\* exists when the invocation has ended successfully.
C20_OwnedWorkDirRemoved ==
    \A i \in Slots :
        LET r == inv[i]
        IN  (/\ r.mode = "modules" /\ r.ownsWorkDir /\ ~r.keep
             /\ r.mpc = "returned" /\ r.st = "resolved")
            => "workDir" \notin r.fs

\* the listing of the runtime's package directory failed or has no entry
InspectionYieldsNothing ==
    /\ env.runtimeDir
    /\ \/ LsFails(env)
       \/ SelectSeq(SplitLines(env.lsraw), LAMBDA item : Len(item) > 0) = << >>

\* C21: when the listing of the runtime's package directory fails or
\* yields no entries, the exclusion list is the fixed built-in list:
\* normalization does not fail, and the build's manifest is the given one
\* without the packages of the built-in list.
C21_FallbackToFixedList ==
    \A i \in Slots :
        LET r == inv[i]
        IN  (r.mpc # "none" /\ InspectionYieldsNothing) =>
                /\ r.error # "ls"
                /\ r.source.dependencies = removedDependencies(r.given.dependencies, MODULES)

\* a reaction of the handler's promise is still to run
Pending(r) ==
    \/ r.st = "running"
    \/ r.st \in {"resolved", "rejected"} /\ r.callback = << >>

\* C22: for every event passed to lambdaArchive the callback is invoked
\* exactly once, with (null, result) when the orchestrator succeeded and
\* with (error, null) otherwise, also when the orchestrator fails
\* synchronously: the callback is never called twice, and once nothing of
\* the invocation is left to run it has been called.
C22_CallbackExactlyOnce ==
    \A i \in Slots :
        LET r == inv[i]
        IN  /\ Len(r.callback) <= 1
            /\ Len(r.callback) = 1 =>
                  IF r.st = "resolved"
                  THEN r.callback[1] = [err |-> "", result |-> r.result]
                  ELSE r.callback[1].err # "" /\ r.callback[1].result = NoStr
            /\ (r.st # "idle" /\ ~Pending(r)) => Len(r.callback) = 1

Intermediate == PackageFolder \cup {"npm/package.json", "installed", "archive"}

\* C23: when the packaging stage of archiveProject starts, the 'package'
\* directory holds the extracted bundle and the materialized dependency
\* tree, and neither the 'package-modules' installation subtree nor the
\* dependency tarball: whenever archiveModules has returned, after a hit as
\* after a miss, 'package-modules' under workDir has been removed.
C23_PackageFolderRemoved ==
    \A i \in Slots :
        LET r == inv[i]
        IN  /\ r.mpc = "returned" =>
                /\ r.fs \cap Intermediate = {}
                /\ Count(r.trace, "rm") = 1
                /\ r.probe = "hit" => Count(r.trace, "npm install") = 0
            /\ (r.mode = "project" /\ Count(r.trace, "zip") = 1
                  /\ Count(r.trace, "cleanup") = 0) =>
                /\ r.mpc = "returned"
                /\ IndexOf(r.trace, "rm") < IndexOf(r.trace, "zip")
                /\ {"package", "node_modules"} \subseteq r.fs
                /\ r.fs \cap Intermediate = {}

\* packaging ran on a tree materialized from a cache hit
C23_Witness ==
    \E i \in Slots :
        /\ inv[i].mode = "project" /\ inv[i].ppc = "upload"
        /\ "zip" \in inv[i].fs /\ "node_modules" \in inv[i].fs
        /\ inv[i].probe = "hit" /\ inv[i].present

====
